---- MODULE Spec2Model ----
(***************************************************************************)
(* Order lifecycle and delivery dispatch of the delivery API (src/app.py). *)
(*                                                                         *)
(* The persistent store is the state: the orders, delivery_persons and     *)
(* notifications collections.  Every HTTP handler is a worker that runs    *)
(* its database calls one at a time; each database call (find_one,         *)
(* count_documents, update_one, insert_one) is atomic, and calls of        *)
(* different workers interleave freely.  A handler whose write does not    *)
(* depend on what it read is one step; a handler that checks what it read  *)
(* and then writes is a read step followed by its write steps.             *)
(***************************************************************************)
EXTENDS Integers, Sequences, FiniteSets, TLC

VARIABLES
    orders,         \* orders_collection: order id (1..n) -> document
    couriers,       \* delivery_persons_collection: record id -> document
    notifications,  \* notifications_collection, in insertion order
    counters,       \* totalOrders of the restaurant and of the dish of the menu
    procs,          \* per worker: the handler in flight, or the response it last sent
    nreq,           \* number of requests received so far
    clock,          \* the store's time: every write is stamped with a later time
    today,          \* the calendar day datetime.now() reports
    coupons,        \* coupons_collection: code -> document
    down            \* the collections whose writes raise at present

vars ==
    <<orders, couriers, notifications, counters, procs, nreq, clock, today, coupons, down>>

\* what no handler of the order lifecycle writes
fixed == <<counters, today, coupons, down>>

---------------------------------------------------------------------------
(* Bounds of the model *)

MaxRequests == 3      \* requests received in one run of the lifecycle model
MaxCreates == 4       \* Create requests received in one run of the creation model
MaxDay == 2           \* calendar days a run of the creation model spans
MaxPriced == 2        \* the requests of a run of the pricing model that may be a Create

---------------------------------------------------------------------------
(* users_collection and delivery_persons_collection: who exists *)

Customers == {"c1", "c2"}
DeliveryUsers == {"d1", "d2"}
Admins == {"a1"}
Users == Customers \cup DeliveryUsers \cup Admins

\* user['role']
RoleOf(u) ==
    IF u \in Customers THEN "customer"
    ELSE IF u \in DeliveryUsers THEN "delivery"
    ELSE "admin"

\* delivery person records: their _id is not the user's _id
DeliveryPersonIds == {"dp1", "dp2"}
UserOfCourier(dp) == IF dp = "dp1" THEN "d1" ELSE "d2"

None == "none"        \* a field that is absent or null
Unset == 0            \* a timestamp field that is absent

\* role_required(...): the decorator's test
RoleAllowed(u, roles) == RoleOf(u) \in roles

---------------------------------------------------------------------------
(* Order documents *)

\* update_order_status: valid_statuses
valid_statuses ==
    {"pending", "confirmed", "preparing", "ready", "on_delivery", "delivered", "cancelled"}

HistoryEntry(s, t, note) == [status |-> s, timestamp |-> t, note |-> note]

\* create_order: the document inserted
NewOrder(number, customer, t) ==
    [orderNumber |-> number,
     customerId |-> customer,
     deliveryPersonId |-> None,
     status |-> "pending",
     statusHistory |-> <<HistoryEntry("pending", t, "Pedido recibido")>>,
     paymentStatus |-> "pending",
     confirmedAt |-> Unset, preparingAt |-> Unset, readyAt |-> Unset,
     onDeliveryAt |-> Unset, acceptedAt |-> Unset, deliveredAt |-> Unset,
     receivedAt |-> Unset, cancelledAt |-> Unset,
     cancellationReason |-> None, cancelledBy |-> None]

\* generate_order_number: ORD-<day>-<count + 1, zero padded>; padding is
\* injective, so the number is the pair of its day and its sequence value
OrderNumber(day, count) == [day |-> day, seq |-> count + 1]

\* count_documents({'orderNumber': {'$regex': '^ORD-<day>'}})
CountOrdersOfDay(day) ==
    Cardinality({o \in DOMAIN orders : orders[o].orderNumber.day = day})

Notification(user, o, s) == [userId |-> user, order |-> o, status |-> s]

---------------------------------------------------------------------------
(* Workers *)

\* a request body without any field; an optional amount is <<>> when the body
\* does not carry it and <<amount>> when it does
NoData ==
    [items |-> <<>>, deliveryAddress |-> None, deliveryFee |-> <<>>,
     discount |-> <<>>, tip |-> <<>>, coupon |-> None]

Idle ==
    [pc |-> "idle", op |-> "", user |-> "", order |-> 0, arg |-> "",
     code |-> 0, snapDp |-> "", day |-> 0, count |-> 0, data |-> NoData,
     reason |-> "", discount |-> 0]

Request(opName, u, o, a) ==
    [Idle EXCEPT !.op = opName, !.user = u, !.order = o, !.arg = a]

\* a finished handler: its locals are gone, its HTTP status code is the response
Done(req, httpCode) == [Idle EXCEPT !.pc = "done", !.op = req.op, !.code = httpCode]

Free(p) == procs[p].pc \in {"idle", "done"}

\* a request is served by the first free worker
CanBegin(p) ==
    /\ Free(p)
    /\ \A q \in DOMAIN procs : q < p => ~Free(q)

Exists(o) == o \in DOMAIN orders

\* the order ids a request may name: the existing ones and one that does not exist
OrderInputs == DOMAIN orders \cup {Len(orders) + 1}

Reply(p, req, httpCode) == procs' = [procs EXCEPT ![p] = Done(req, httpCode)]

Goto(p, req, label) == procs' = [procs EXCEPT ![p] = [req EXCEPT !.pc = label]]

At(p, label) == procs[p].pc = label

\* notifications_collection.insert_one(n) as a handler's last call before its
\* response: when it raises, the handler's except clause answers 500
Notify(p, req, n, httpCode) ==
    IF "notifications" \in down
    THEN /\ UNCHANGED notifications
         /\ Reply(p, req, 500)
    ELSE /\ notifications' = Append(notifications, n)
         /\ Reply(p, req, httpCode)

---------------------------------------------------------------------------
(* StatusTransitionEngine: PUT /api/orders/<id>/status *)

StatusCallers == {"a1", "c1"}
StatusInputs ==
    {"confirmed", "on_delivery", "delivered", "cancelled", "delivering_confirmation", "bogus"}

\* a variant of PhaseFields that leaves paymentStatus alone on delivered
PhaseFieldsUnpaid(ord, s, t) ==
    CASE s = "confirmed" -> [ord EXCEPT !.confirmedAt = t]
      [] s = "preparing" -> [ord EXCEPT !.preparingAt = t]
      [] s = "ready" -> [ord EXCEPT !.readyAt = t]
      [] s = "on_delivery" -> [ord EXCEPT !.onDeliveryAt = t]
      [] s = "delivered" -> [ord EXCEPT !.deliveredAt = t]
      [] OTHER -> ord

\* the phase timestamp and payment fields update_data carries for new_status
PhaseFields(ord, s, t) ==
    CASE s = "confirmed" -> [ord EXCEPT !.confirmedAt = t]
      [] s = "preparing" -> [ord EXCEPT !.preparingAt = t]
      [] s = "ready" -> [ord EXCEPT !.readyAt = t]
      [] s = "on_delivery" -> [ord EXCEPT !.onDeliveryAt = t]
      [] s = "delivered" -> [ord EXCEPT !.deliveredAt = t, !.paymentStatus = "paid"]
      [] OTHER -> ord

\* a variant of PushHistory that writes the field with '$set'
SetHistory(ord, entry) == [ord EXCEPT !.statusHistory = <<entry>>]

\* '$push': {'statusHistory': ...}
PushHistory(ord, entry) == [ord EXCEPT !.statusHistory = Append(@, entry)]

\* the update_one of update_order_status
StatusUpdate(ord, s, t, note) ==
    PushHistory(PhaseFields([ord EXCEPT !.status = s], s, t), HistoryEntry(s, t, note))

\* a variant of StatusAccepted that only requires a status to be given
StatusGiven(s) == s # ""

\* the test that the requested status is acceptable
StatusAccepted(s) == s # "" /\ s \in valid_statuses

update_order_status(p, u, o, s) ==
    LET req == Request("status", u, o, s) IN
    /\ CanBegin(p)
    /\ nreq < MaxRequests
    /\ nreq' = nreq + 1
    /\ IF ~RoleAllowed(u, {"admin", "restaurant_owner", "delivery"})
       THEN /\ Reply(p, req, 403)
            /\ UNCHANGED <<orders, notifications, clock>>
       ELSE IF ~StatusAccepted(s)
       THEN /\ Reply(p, req, 400)
            /\ UNCHANGED <<orders, notifications, clock>>
       ELSE IF ~Exists(o)
       THEN /\ Reply(p, req, 404)
            /\ UNCHANGED <<orders, notifications, clock>>
       ELSE /\ orders' = [orders EXCEPT ![o] = StatusUpdate(@, s, clock + 1, "")]
            /\ clock' = clock + 1
            /\ Notify(p, req, Notification(orders[o].customerId, o, s), 200)
    /\ UNCHANGED <<couriers, fixed>>

---------------------------------------------------------------------------
(* DispatchAssigner: POST /api/delivery/orders/<id>/accept *)

AcceptCallers == {"d1", "d2", "c1"}

\* get_available_delivery_orders: the orders its query selects
AvailableOrders ==
    {o \in DOMAIN orders :
        /\ orders[o].deliveryPersonId = None
        /\ orders[o].status \in {"pending", "confirmed", "preparing", "ready"}}

\* `if order.get('deliveryPersonId')`: the order read already has a courier
AlreadyAssigned(ord) == ord.deliveryPersonId # None

\* the update_one of accept_delivery_order
AcceptUpdate(ord, u, t) ==
    [ord EXCEPT !.deliveryPersonId = u, !.status = "on_delivery", !.acceptedAt = t]

accept_delivery_order(p, u, o) ==
    LET req == Request("accept", u, o, "") IN
    /\ CanBegin(p)
    /\ nreq < MaxRequests
    /\ nreq' = nreq + 1
    /\ IF ~RoleAllowed(u, {"delivery"}) THEN Reply(p, req, 403)
       ELSE IF ~Exists(o) THEN Reply(p, req, 404)
       ELSE IF AlreadyAssigned(orders[o]) THEN Reply(p, req, 400)
       ELSE Goto(p, req, "accept_write")
    /\ UNCHANGED <<orders, couriers, notifications, clock, fixed>>

accept_write(p) ==
    /\ At(p, "accept_write")
    /\ orders' = [orders EXCEPT ![procs[p].order] =
                      AcceptUpdate(@, procs[p].user, clock + 1)]
    /\ clock' = clock + 1
    /\ Reply(p, procs[p], 200)
    /\ UNCHANGED <<couriers, notifications, nreq, fixed>>

---------------------------------------------------------------------------
(* DispatchAssigner: PUT /api/orders/<id>/assign-delivery *)

AssignCallers == {"a1", "d1"}
CourierInputs == DeliveryPersonIds

\* find_one({'_id': id, 'isAvailable': True, 'isOnline': True}) finds the courier
CourierFound(dp) ==
    /\ dp \in DOMAIN couriers
    /\ couriers[dp].isAvailable
    /\ couriers[dp].isOnline

\* the update_one of assign_delivery_person on the order
AssignUpdate(ord, dp, t) ==
    [ord EXCEPT !.deliveryPersonId = dp, !.status = "on_delivery", !.onDeliveryAt = t]

assign_delivery_person(p, u, o, dp) ==
    LET req == Request("assign", u, o, dp) IN
    /\ CanBegin(p)
    /\ nreq < MaxRequests
    /\ nreq' = nreq + 1
    /\ IF ~RoleAllowed(u, {"admin", "restaurant_owner"}) THEN Reply(p, req, 403)
       ELSE IF dp = "" THEN Reply(p, req, 400)
       ELSE IF ~CourierFound(dp) THEN Reply(p, req, 404)
       ELSE Goto(p, req, "assign_write_order")
    /\ UNCHANGED <<orders, couriers, notifications, clock, fixed>>

\* update_one matches no document when the order id does not exist
assign_write_order(p) ==
    /\ At(p, "assign_write_order")
    /\ IF Exists(procs[p].order)
       THEN /\ orders' = [orders EXCEPT ![procs[p].order] =
                              AssignUpdate(@, procs[p].arg, clock + 1)]
            /\ clock' = clock + 1
       ELSE UNCHANGED <<orders, clock>>
    /\ Goto(p, procs[p], "assign_write_courier")
    /\ UNCHANGED <<couriers, notifications, nreq, fixed>>

\* when the update_one raises, the handler's except clause answers 500
assign_write_courier(p) ==
    /\ At(p, "assign_write_courier")
    /\ IF "delivery_persons" \in down
       THEN /\ UNCHANGED couriers
            /\ Reply(p, procs[p], 500)
       ELSE /\ couriers' = [couriers EXCEPT ![procs[p].arg].isAvailable = FALSE]
            /\ Reply(p, procs[p], 200)
    /\ UNCHANGED <<orders, notifications, nreq, clock, fixed>>

---------------------------------------------------------------------------
(* DeliveryConfirmationProtocol: PUT /api/orders/<id>/confirm-delivery *)

ConfirmDeliveryCallers == {"d1", "d2", "c1"}

\* a variant of AssignedTo whose filter names the order alone
AssignedToAnyone(o, u) == Exists(o)

\* find_one({'_id': id, 'deliveryPersonId': caller}) finds the order
AssignedTo(o, u) == Exists(o) /\ orders[o].deliveryPersonId = u

\* the update_one of confirm_delivery
ConfirmDeliveryUpdate(ord, t) ==
    PushHistory([ord EXCEPT !.status = "delivering_confirmation", !.deliveredAt = t],
                HistoryEntry("delivering_confirmation", t, "Repartidor confirmo la entrega"))

confirm_delivery(p, u, o) ==
    LET req == Request("confirm_delivery", u, o, "") IN
    /\ CanBegin(p)
    /\ nreq < MaxRequests
    /\ nreq' = nreq + 1
    /\ IF ~RoleAllowed(u, {"delivery"}) THEN Reply(p, req, 403)
       ELSE IF ~AssignedTo(o, u) THEN Reply(p, req, 404)
       ELSE Goto(p, req, "confirm_delivery_write")
    /\ UNCHANGED <<orders, couriers, notifications, clock, fixed>>

confirm_delivery_write(p) ==
    LET o == procs[p].order IN
    /\ At(p, "confirm_delivery_write")
    /\ orders' = [orders EXCEPT ![o] = ConfirmDeliveryUpdate(@, clock + 1)]
    /\ clock' = clock + 1
    /\ Notify(p, procs[p],
              Notification(orders[o].customerId, o, "delivering_confirmation"), 200)
    /\ UNCHANGED <<couriers, nreq, fixed>>

---------------------------------------------------------------------------
(* DeliveryConfirmationProtocol: PUT /api/orders/<id>/confirm-received *)

ConfirmReceivedCallers == {"c1", "c2", "d1"}

\* the update_one of confirm_received
ConfirmReceivedUpdate(ord, t) ==
    PushHistory([ord EXCEPT !.status = "delivered", !.receivedAt = t,
                            !.paymentStatus = "paid"],
                HistoryEntry("delivered", t, "Cliente confirmo la recepcion del pedido"))

\* a variant of ConfirmReceivedCheck without the test of the order's status
ConfirmReceivedCheckAnyStatus(u, o) ==
    IF RoleOf(u) # "customer" THEN 403
    ELSE IF ~Exists(o) THEN 404
    ELSE IF orders[o].customerId # u THEN 403
    ELSE IF orders[o].deliveryPersonId = None THEN 400
    ELSE 0

\* the response of confirm_received's checks on the order it read; 0: go on
ConfirmReceivedCheck(u, o) ==
    IF RoleOf(u) # "customer" THEN 403
    ELSE IF ~Exists(o) THEN 404
    ELSE IF orders[o].customerId # u THEN 403
    ELSE IF orders[o].status # "delivering_confirmation" THEN 400
    ELSE IF orders[o].deliveryPersonId = None THEN 400
    ELSE 0

confirm_received(p, u, o) ==
    LET req == Request("confirm_received", u, o, "")
        failure == ConfirmReceivedCheck(u, o)
    IN
    /\ CanBegin(p)
    /\ nreq < MaxRequests
    /\ nreq' = nreq + 1
    /\ IF failure # 0 THEN Reply(p, req, failure)
       ELSE Goto(p, [req EXCEPT !.snapDp = orders[o].deliveryPersonId],
                 "confirm_received_write")
    /\ UNCHANGED <<orders, couriers, notifications, clock, fixed>>

confirm_received_write(p) ==
    LET o == procs[p].order IN
    /\ At(p, "confirm_received_write")
    /\ orders' = [orders EXCEPT ![o] = ConfirmReceivedUpdate(@, clock + 1)]
    /\ clock' = clock + 1
    /\ Notify(p, procs[p], Notification(procs[p].snapDp, o, "delivered"), 200)
    /\ UNCHANGED <<couriers, nreq, fixed>>

---------------------------------------------------------------------------
(* PUT /api/orders/<id>/cancel *)

DefaultReason == "Sin razon especificada"

\* (caller, cancelled_by, reason) of the Cancel requests; a body without a
\* reason carries the default one
CancelInputs ==
    {<<"c1", "customer", "Tardo demasiado">>, <<"c2", "customer", DefaultReason>>,
     <<"d1", "delivery", DefaultReason>>, <<"d2", "delivery", DefaultReason>>,
     <<"c2", "admin", DefaultReason>>, <<"a1", "admin", DefaultReason>>}

\* the response of cancel_order's authorization on the order it read; 0: go on
CancelCheck(u, o, by) ==
    IF ~Exists(o) THEN 404
    ELSE IF by = "customer" /\ orders[o].customerId # u THEN 403
    ELSE IF by = "delivery" /\ orders[o].deliveryPersonId # u THEN 403
    ELSE 0

\* a variant of CancelUpdate that also releases the order's courier
CancelUpdateUnassign(ord, reason, by, t) ==
    [ord EXCEPT !.status = "cancelled", !.cancellationReason = reason,
                !.cancelledBy = by, !.cancelledAt = t, !.deliveryPersonId = None]

\* the update_one of cancel_order
CancelUpdate(ord, reason, by, t) ==
    [ord EXCEPT !.status = "cancelled", !.cancellationReason = reason,
                !.cancelledBy = by, !.cancelledAt = t]

cancel_order(p, u, o, by, reason) ==
    LET req == [Request("cancel", u, o, by) EXCEPT !.reason = reason]
        failure == CancelCheck(u, o, by)
    IN
    /\ CanBegin(p)
    /\ nreq < MaxRequests
    /\ nreq' = nreq + 1
    /\ IF failure # 0 THEN Reply(p, req, failure)
       ELSE Goto(p, req, "cancel_write")
    /\ UNCHANGED <<orders, couriers, notifications, clock, fixed>>

cancel_write(p) ==
    /\ At(p, "cancel_write")
    /\ orders' = [orders EXCEPT ![procs[p].order] =
                      CancelUpdate(@, procs[p].reason, procs[p].arg, clock + 1)]
    /\ clock' = clock + 1
    /\ Reply(p, procs[p], 200)
    /\ UNCHANGED <<couriers, notifications, nreq, fixed>>

---------------------------------------------------------------------------
(* OrderService: POST /api/orders *)

\* amounts are in cents
Item == [dishId |-> "dish1", quantity |-> 2, restaurantId |-> "r1", subtotal |-> 23900]
Address == "address"

\* a body with one item and an address, and no optional field
PlainBody == [NoData EXCEPT !.items = <<Item>>, !.deliveryAddress = Address]

\* the request bodies: with and without items, with and without an address
CreateInputs ==
    {PlainBody,
     [PlainBody EXCEPT !.items = <<>>],
     [PlainBody EXCEPT !.deliveryAddress = None]}

\* data.get(field, default)
Get(field, default) == IF field = <<>> THEN default ELSE field[1]

\* sum(item['subtotal'] for item in data['items'])
RECURSIVE SumSubtotals(_)
SumSubtotals(items) ==
    IF items = <<>> THEN 0 ELSE Head(items).subtotal + SumSubtotals(Tail(items))

\* a variant of Round2 that cuts the fraction of a cent off
Truncate2(x) == x \div 100

\* round(x, 2) of an amount x given in hundredths of a cent, in cents: to the
\* nearest cent, a tie to the even one.  No amount this model rounds is at a
\* tie or nearer to one than 0.02 cent, so the float's error never decides
Round2(x) ==
    LET q == x \div 100
        r == x % 100
    IN IF r < 50 THEN q
       ELSE IF r > 50 THEN q + 1
       ELSE IF q % 2 = 0 THEN q ELSE q + 1

\* create_order: the amounts of the order document
Amounts(data) ==
    LET subtotal == SumSubtotals(data.items)
        delivery_fee == Get(data.deliveryFee, 3500)
        discount == Get(data.discount, 0)
        tax == 16 * subtotal
        tip == Get(data.tip, 0)
        total == 100 * (subtotal + delivery_fee - discount + tip) + tax
    IN [subtotal |-> Round2(100 * subtotal),
        deliveryFee |-> Round2(100 * delivery_fee),
        discount |-> Round2(100 * discount),
        tax |-> Round2(tax),
        tip |-> Round2(100 * tip),
        total |-> Round2(total),
        coupon |-> data.coupon]

\* the order document with its amounts
Priced(ord, data) == ord @@ Amounts(data)

\* a variant of CreateCheck that does not look at the address
CreateCheckItemsOnly(data) == IF Len(data.items) = 0 THEN 400 ELSE 0

\* the response of create_order's validation of the body; 0: go on
CreateCheck(data) ==
    IF Len(data.items) = 0 THEN 400
    ELSE IF data.deliveryAddress = None THEN 400
    ELSE 0

\* a variant of UniqueOrderNumber for a collection without the unique index
NoUniqueIndex(number) == TRUE

\* the unique index on orderNumber lets the insert through
UniqueOrderNumber(number) ==
    \A o \in DOMAIN orders : orders[o].orderNumber # number

\* '$inc': {'totalOrders': item['quantity']} for every item that names a dish
RECURSIVE DishIncrement(_)
DishIncrement(items) ==
    IF items = <<>> THEN 0
    ELSE (IF Head(items).dishId # None THEN Head(items).quantity ELSE 0)
         + DishIncrement(Tail(items))

\* validation, then generate_order_number reads the day and counts its orders
create_order(p, u, data) ==
    LET req == [Request("create", u, 0, "") EXCEPT
                    !.day = today, !.count = CountOrdersOfDay(today), !.data = data]
        failure == CreateCheck(data)
    IN
    /\ CanBegin(p)
    /\ nreq < MaxCreates
    /\ nreq' = nreq + 1
    /\ IF failure # 0 THEN Reply(p, Request("create", u, 0, ""), failure)
       ELSE Goto(p, req, "create_insert")
    /\ UNCHANGED <<orders, couriers, notifications, counters, clock, today, coupons, down>>

\* insert_one, then the counters and the notification; a duplicate order number
\* raises, and so does a write to a collection that is down: the handler skips
\* the calls that follow and answers 500
create_insert(p) ==
    LET number == OrderNumber(procs[p].day, procs[p].count)
        id == Len(orders) + 1
    IN
    /\ At(p, "create_insert")
    /\ IF UniqueOrderNumber(number)
       THEN /\ orders' = Append(orders,
                               Priced(NewOrder(number, procs[p].user, clock + 1),
                                      procs[p].data))
            /\ clock' = clock + 1
            /\ counters' =
                   [restaurant |-> IF "restaurants" \in down THEN counters.restaurant
                                   ELSE counters.restaurant + 1,
                    dish |-> IF {"restaurants", "dishes"} \cap down # {} THEN counters.dish
                             ELSE counters.dish + DishIncrement(procs[p].data.items)]
            /\ IF {"restaurants", "dishes"} \cap down # {}
               THEN /\ UNCHANGED notifications
                    /\ Reply(p, procs[p], 500)
               ELSE Notify(p, procs[p], Notification(procs[p].user, id, "pending"), 201)
       ELSE /\ Reply(p, procs[p], 500)
            /\ UNCHANGED <<orders, clock, counters, notifications>>
    /\ UNCHANGED <<couriers, nreq, today, coupons, down>>

\* the calendar day changes
Midnight ==
    /\ today < MaxDay
    /\ today' = today + 1
    /\ UNCHANGED <<orders, couriers, notifications, counters, procs, nreq, clock,
                   coupons, down>>

---------------------------------------------------------------------------
(* CouponValidator: POST /api/coupons/validate *)

\* coupon documents as create_coupon inserts them, amounts in cents; an
\* optional field is <<>> when the document lacks it
Coupons ==
    [c \in {"SAVE10", "WELCOME", "EXPIRED"} |->
        [isActive |-> TRUE,
         validFrom |-> <<0>>,
         validUntil |-> IF c = "EXPIRED" THEN <<0>> ELSE <<>>,
         usageLimit |-> <<>>,
         usageCount |-> 0,
         minOrderAmount |-> IF c = "SAVE10" THEN 10000 ELSE 0,
         isForNewUsersOnly |-> (c = "WELCOME"),
         applicableTo |-> "all",
         restaurantIds |-> {},
         discountType |-> IF c = "SAVE10" THEN "percentage" ELSE "fixed",
         discountValue |-> IF c = "SAVE10" THEN 10 ELSE 5000,
         maxDiscountAmount |-> IF c = "SAVE10" THEN <<2000>> ELSE <<>>]]

\* data.get('code', '').upper()
Upper(code) == IF code = "save10" THEN "SAVE10" ELSE code

\* a variant of Min that takes the larger amount
Max(a, b) == IF a >= b THEN a ELSE b

Min(a, b) == IF a <= b THEN a ELSE b

Refused(httpCode) == [code |-> httpCode, discount |-> 0]

\* validate_coupon: its response for a code, an order amount in cents, a
\* restaurant and the calling user, at time now
validate_coupon(rawCode, order_amount, restaurant_id, u, now) ==
    LET code == Upper(rawCode) IN
    IF code = "" THEN Refused(400)
    ELSE IF ~(code \in DOMAIN coupons /\ coupons[code].isActive) THEN Refused(404)
    ELSE
    LET coupon == coupons[code]
        percent == order_amount * coupon.discountValue
        amount == IF coupon.discountType = "percentage" THEN percent
                  ELSE 100 * coupon.discountValue
        capped == IF coupon.maxDiscountAmount # <<>>
                  THEN Min(amount, 100 * coupon.maxDiscountAmount[1])
                  ELSE amount
    IN
    IF coupon.validFrom # <<>> /\ now < coupon.validFrom[1] THEN Refused(400)
    ELSE IF coupon.validUntil # <<>> /\ now > coupon.validUntil[1] THEN Refused(400)
    ELSE IF coupon.usageLimit # <<>> /\ coupon.usageCount >= coupon.usageLimit[1]
         THEN Refused(400)
    ELSE IF coupon.minOrderAmount > order_amount THEN Refused(400)
    ELSE IF /\ coupon.isForNewUsersOnly
            /\ \E o \in DOMAIN orders : orders[o].customerId = u
         THEN Refused(400)
    ELSE IF /\ coupon.applicableTo = "specific_restaurants"
            /\ restaurant_id \notin coupon.restaurantIds
         THEN Refused(400)
    ELSE [code |-> 200, discount |-> Round2(capped)]

\* a variant of KeepCoupons that counts a use of the coupon
CountUsage(code) ==
    coupons' = [c \in DOMAIN coupons |->
                   IF c = Upper(code)
                   THEN [coupons[c] EXCEPT !.usageCount = @ + 1]
                   ELSE coupons[c]]

\* validate_coupon makes no write to coupons_collection
KeepCoupons(code) == UNCHANGED coupons

\* the handler: one find_one of the coupon, one count of the user's orders,
\* and the response with its discount
validate_request(p, u, code, order_amount, restaurant_id) ==
    LET req == Request("validate", u, 0, code)
        v == validate_coupon(code, order_amount, restaurant_id, u, clock)
    IN
    /\ CanBegin(p)
    /\ nreq < MaxRequests
    /\ nreq' = nreq + 1
    /\ procs' = [procs EXCEPT ![p] = [Done(req, v.code) EXCEPT !.discount = v.discount]]
    /\ KeepCoupons(code)
    /\ UNCHANGED <<orders, couriers, notifications, counters, clock, today, down>>

---------------------------------------------------------------------------
(* The lifecycle model: one order just created, two couriers on duty *)

Workers == {1, 2}
Day1 == 1

InitCouriers ==
    [dp \in DeliveryPersonIds |->
        [userId |-> UserOfCourier(dp), isAvailable |-> TRUE, isOnline |-> TRUE]]

Init ==
    /\ orders = <<Priced(NewOrder(OrderNumber(Day1, 0), "c1", 1), PlainBody)>>
    /\ couriers = InitCouriers
    /\ notifications = <<Notification("c1", 1, "pending")>>
    /\ counters = [restaurant |-> 1, dish |-> Item.quantity]
    /\ procs = [p \in Workers |-> Idle]
    /\ nreq = 0
    /\ clock = 1
    /\ today = Day1
    /\ coupons = Coupons
    /\ down = {}

\* one step of each handler, for any worker and any request
Transition ==
    \E p \in DOMAIN procs, u \in StatusCallers, o \in OrderInputs, s \in StatusInputs :
        update_order_status(p, u, o, s)
SelfAccept ==
    \E p \in DOMAIN procs, u \in AcceptCallers, o \in OrderInputs :
        accept_delivery_order(p, u, o)
SelfAcceptWrite == \E p \in DOMAIN procs : accept_write(p)
AssignToOrder ==
    \E p \in DOMAIN procs, u \in AssignCallers, o \in OrderInputs, dp \in CourierInputs :
        assign_delivery_person(p, u, o, dp)
AssignWriteOrder == \E p \in DOMAIN procs : assign_write_order(p)
AssignWriteCourier == \E p \in DOMAIN procs : assign_write_courier(p)
ConfirmDelivered ==
    \E p \in DOMAIN procs, u \in ConfirmDeliveryCallers, o \in OrderInputs :
        confirm_delivery(p, u, o)
ConfirmDeliveredWrite == \E p \in DOMAIN procs : confirm_delivery_write(p)
ConfirmReceived ==
    \E p \in DOMAIN procs, u \in ConfirmReceivedCallers, o \in OrderInputs :
        confirm_received(p, u, o)
ConfirmReceivedWrite == \E p \in DOMAIN procs : confirm_received_write(p)
Cancel ==
    \E p \in DOMAIN procs, c \in CancelInputs, o \in OrderInputs :
        cancel_order(p, c[1], o, c[2], c[3])
CancelWrite == \E p \in DOMAIN procs : cancel_write(p)

Next ==
    \/ Transition
    \/ SelfAccept
    \/ SelfAcceptWrite
    \/ AssignToOrder
    \/ AssignWriteOrder
    \/ AssignWriteCourier
    \/ ConfirmDelivered
    \/ ConfirmDeliveredWrite
    \/ ConfirmReceived
    \/ ConfirmReceivedWrite
    \/ Cancel
    \/ CancelWrite

Spec == Init /\ [][Next]_vars

---------------------------------------------------------------------------
(* The creation model: an empty store, three workers creating orders *)

Creators == {1, 2, 3}

InitCreate ==
    /\ orders = <<>>
    /\ couriers = InitCouriers
    /\ notifications = <<>>
    /\ counters = [restaurant |-> 0, dish |-> 0]
    /\ procs = [p \in Creators |-> Idle]
    /\ nreq = 0
    /\ clock = 0
    /\ today = Day1
    /\ coupons = Coupons
    /\ down = {}

Create ==
    \E p \in DOMAIN procs, u \in Customers, data \in CreateInputs : create_order(p, u, data)
CreateInsert == \E p \in DOMAIN procs : create_insert(p)

NextCreate ==
    \/ Create
    \/ CreateInsert
    \/ Midnight

SpecCreate == InitCreate /\ [][NextCreate]_vars

---------------------------------------------------------------------------
(* The dispatch model: two orders just created, two couriers on duty *)

InitDispatch ==
    /\ orders = <<Priced(NewOrder(OrderNumber(Day1, 0), "c1", 1), PlainBody),
                  Priced(NewOrder(OrderNumber(Day1, 1), "c2", 2), PlainBody)>>
    /\ couriers = InitCouriers
    /\ notifications = <<Notification("c1", 1, "pending"), Notification("c2", 2, "pending")>>
    /\ counters = [restaurant |-> 2, dish |-> 2 * Item.quantity]
    /\ procs = [p \in Workers |-> Idle]
    /\ nreq = 0
    /\ clock = 2
    /\ today = Day1
    /\ coupons = Coupons
    /\ down = {}

NextDispatch ==
    \/ SelfAccept
    \/ SelfAcceptWrite
    \/ AssignToOrder
    \/ AssignWriteOrder
    \/ AssignWriteCourier

SpecDispatch == InitDispatch /\ [][NextDispatch]_vars

---------------------------------------------------------------------------
(* The pricing model: one worker, orders created with all kinds of amounts *)
(* and then taken through their lifecycle                                  *)

Clerks == {1}

CheapItem(cents) == [Item EXCEPT !.subtotal = cents]

\* the request bodies: given and defaulted amounts, sums whose tax rounds down
\* and up, a negative tip, a discount above the total, coupon codes
PricingInputs ==
    {[PlainBody EXCEPT !.deliveryFee = <<3500>>, !.discount = <<0>>, !.tip = <<3000>>],
     [PlainBody EXCEPT !.items = <<CheapItem(3), CheapItem(4)>>],
     [PlainBody EXCEPT !.items = <<CheapItem(4)>>, !.deliveryFee = <<0>>],
     [PlainBody EXCEPT !.tip = <<-5000>>],
     [PlainBody EXCEPT !.discount = <<50000>>],
     [PlainBody EXCEPT !.coupon = "SAVE10"],
     [PlainBody EXCEPT !.coupon = "save10", !.discount = <<2000>>],
     [PlainBody EXCEPT !.coupon = "EXPIRED", !.discount = <<1000>>],
     [PlainBody EXCEPT !.items = <<>>]}

\* the customer who has no order yet
PricingCallers == {"c2"}

InitPricing ==
    /\ orders = <<Priced(NewOrder(OrderNumber(Day1, 0), "c1", 1), PlainBody)>>
    /\ couriers = InitCouriers
    /\ notifications = <<Notification("c1", 1, "pending")>>
    /\ counters = [restaurant |-> 1, dish |-> Item.quantity]
    /\ procs = [p \in Clerks |-> Idle]
    /\ nreq = 0
    /\ clock = 1
    /\ today = Day1
    /\ coupons = Coupons
    /\ down = {}

CreatePriced ==
    /\ nreq < MaxPriced
    /\ \E p \in DOMAIN procs, u \in PricingCallers, data \in PricingInputs :
           create_order(p, u, data)

NextPricing ==
    \/ CreatePriced
    \/ CreateInsert
    \/ Transition
    \/ SelfAccept
    \/ SelfAcceptWrite
    \/ AssignToOrder
    \/ AssignWriteOrder
    \/ AssignWriteCourier
    \/ ConfirmDelivered
    \/ ConfirmDeliveredWrite
    \/ ConfirmReceived
    \/ ConfirmReceivedWrite
    \/ Cancel
    \/ CancelWrite

SpecPricing == InitPricing /\ [][NextPricing]_vars

---------------------------------------------------------------------------
(* The handshake model: one order that courier d1 has accepted, and the    *)
(* calls that confirm, cancel or move it, two at a time                    *)

InitHandshake ==
    /\ orders = <<AcceptUpdate(Priced(NewOrder(OrderNumber(Day1, 0), "c1", 1), PlainBody),
                               "d1", 2)>>
    /\ couriers = InitCouriers
    /\ notifications = <<Notification("c1", 1, "pending")>>
    /\ counters = [restaurant |-> 1, dish |-> Item.quantity]
    /\ procs = [p \in Workers |-> Idle]
    /\ nreq = 0
    /\ clock = 2
    /\ today = Day1
    /\ coupons = Coupons
    /\ down = {}

NextHandshake ==
    \/ ConfirmDelivered
    \/ ConfirmDeliveredWrite
    \/ ConfirmReceived
    \/ ConfirmReceivedWrite
    \/ Cancel
    \/ CancelWrite
    \/ Transition

SpecHandshake == InitHandshake /\ [][NextHandshake]_vars

---------------------------------------------------------------------------
(* The outage model: one worker, and one collection that may be down, so   *)
(* that every write to it raises                                           *)

OutageCases == {{}, {"notifications"}, {"delivery_persons"}, {"restaurants"}, {"dishes"}}

InitOutage ==
    /\ orders = <<Priced(NewOrder(OrderNumber(Day1, 0), "c1", 1), PlainBody)>>
    /\ couriers = InitCouriers
    /\ notifications = <<Notification("c1", 1, "pending")>>
    /\ counters = [restaurant |-> 1, dish |-> Item.quantity]
    /\ procs = [p \in Clerks |-> Idle]
    /\ nreq = 0
    /\ clock = 1
    /\ today = Day1
    /\ coupons = Coupons
    /\ down \in OutageCases

NextOutage ==
    \/ Create
    \/ CreateInsert
    \/ Transition
    \/ SelfAccept
    \/ SelfAcceptWrite
    \/ AssignToOrder
    \/ AssignWriteOrder
    \/ AssignWriteCourier
    \/ ConfirmDelivered
    \/ ConfirmDeliveredWrite
    \/ ConfirmReceived
    \/ ConfirmReceivedWrite
    \/ Cancel
    \/ CancelWrite

SpecOutage == InitOutage /\ [][NextOutage]_vars

---------------------------------------------------------------------------
(* The coupon model: one coupon document of any shape, validated for       *)
(* several customers, amounts and restaurants, and used in orders          *)

\* the documents of coupon X: every combination of the fields validate_coupon
\* reads
CouponDocs ==
    {[isActive |-> active, validFrom |-> from, validUntil |-> until,
      usageLimit |-> usage[1], usageCount |-> usage[2],
      minOrderAmount |-> minimum, isForNewUsersOnly |-> newOnly,
      applicableTo |-> scope[1], restaurantIds |-> scope[2],
      discountType |-> kind[1], discountValue |-> kind[2],
      maxDiscountAmount |-> kind[3]] :
        active \in BOOLEAN, from \in {<<0>>, <<9>>}, until \in {<<>>, <<0>>},
        usage \in {<< <<>>, 0 >>, << <<2>>, 1 >>, << <<2>>, 2 >>},
        minimum \in {0, 15000}, newOnly \in BOOLEAN,
        scope \in {<<"all", {}>>, <<"specific_restaurants", {"r1"}>>},
        kind \in {<<"percentage", 20, <<3000>> >>, <<"percentage", 20, <<>> >>,
                  <<"fixed", 5000, <<>> >>, <<"fixed", 5000, <<3000>> >>}}

CodeInputs == {"X", "Y", ""}
AmountInputs == {10000, 20000, 1999}
RestaurantInputs == {"r1", "r2"}

InitCoupon ==
    /\ orders = <<Priced(NewOrder(OrderNumber(Day1, 0), "c1", 1), PlainBody)>>
    /\ couriers = InitCouriers
    /\ notifications = <<Notification("c1", 1, "pending")>>
    /\ counters = [restaurant |-> 1, dish |-> Item.quantity]
    /\ procs = [p \in Clerks |-> Idle]
    /\ nreq = 0
    /\ clock = 1
    /\ today = Day1
    /\ coupons \in [{"X"} -> CouponDocs]
    /\ down = {}

Validate ==
    \E p \in DOMAIN procs, u \in Customers, code \in CodeInputs,
       amount \in AmountInputs, r \in RestaurantInputs :
        validate_request(p, u, code, amount, r)

CreateWithCoupon ==
    /\ nreq < MaxPriced
    /\ \E p \in DOMAIN procs :
           create_order(p, "c2", [PlainBody EXCEPT !.coupon = "X"])

NextCoupon ==
    \/ Validate
    \/ CreateWithCoupon
    \/ CreateInsert

SpecCoupon == InitCoupon /\ [][NextCoupon]_vars

---------------------------------------------------------------------------
(* Properties *)

IsPrefix(a, b) == Len(a) <= Len(b) /\ SubSeq(b, 1, Len(a)) = a

Last(h) == h[Len(h)]

StatusesOf(h) == {h[i].status : i \in DOMAIN h}

\* the status chain of the order state machine
StatusChain ==
    <<"pending", "confirmed", "preparing", "ready", "on_delivery",
      "delivering_confirmation", "delivered">>

TerminalStatuses == {"delivered", "cancelled"}

\* a move of the order state machine: to the next status of the chain, or to
\* cancelled from a status that is not terminal
LegalMove(from, to) ==
    \/ \E i \in 1..(Len(StatusChain) - 1) : StatusChain[i] = from /\ StatusChain[i + 1] = to
    \/ to = "cancelled" /\ from \notin TerminalStatuses

\* worker p sends its response in this step
Responds(p) == procs[p].pc # "done" /\ procs'[p].pc = "done"

\* C1: when two SelfAccept calls by different couriers race on one unassigned
\* order, exactly one succeeds: the call whose write comes after the other
\* courier has won fails with Conflict (400) and the order keeps the winner.
C1_ExactlyOneWinner ==
    [][\A p \in DOMAIN procs :
          (accept_write(p)
             /\ orders[procs[p].order].deliveryPersonId \in DeliveryUsers \ {procs[p].user})
          => /\ procs'[p].code = 400
             /\ orders'[procs[p].order].deliveryPersonId =
                    orders[procs[p].order].deliveryPersonId]_vars

\* C2: no two persisted orders have the same orderNumber, and within one day
\* the sequence part increases in the order in which the orders are persisted.
C2_UniqueIncreasing ==
    \A a, b \in DOMAIN orders :
        a < b =>
            /\ orders[a].orderNumber # orders[b].orderNumber
            /\ orders[a].orderNumber.day = orders[b].orderNumber.day
                   => orders[a].orderNumber.seq < orders[b].orderNumber.seq

\* three orders persisted on one day while a racing Create lost with 500
C2_Witness ==
    /\ Cardinality({o \in DOMAIN orders : orders[o].orderNumber.day = Day1}) >= 3
    /\ \E p \in DOMAIN procs :
           procs[p].pc = "done" /\ procs[p].op = "create" /\ procs[p].code = 500

\* C3: deliveryPersonId changes at most once: once an order holds a courier, no
\* step replaces or clears it.
C3_AssignedOnce ==
    [][\A o \in DOMAIN orders :
          orders[o].deliveryPersonId # None
              => orders'[o].deliveryPersonId = orders[o].deliveryPersonId]_vars

\* C4: concurrent AssignToOrder calls never bind one courier to two orders.
C4_NoDoubleBooking ==
    \A dp \in DeliveryPersonIds, a, b \in DOMAIN orders :
        (orders[a].deliveryPersonId = dp /\ orders[b].deliveryPersonId = dp) => a = b

\* C5: a Transition call either makes a legal move of the state machine, or is
\* rejected and leaves the order unchanged.
C5_StateMachine ==
    [][\A p \in DOMAIN procs, u \in StatusCallers, o \in DOMAIN orders, s \in StatusInputs :
          update_order_status(p, u, o, s)
              => \/ procs'[p].code = 200 /\ LegalMove(orders[o].status, s)
                 \/ procs'[p].code # 200 /\ orders' = orders]_vars

\* C6: delivered and cancelled are terminal: no step changes the status of an
\* order that is delivered or cancelled.
C6_TerminalFinal ==
    [][\A o \in DOMAIN orders :
          orders[o].status \in TerminalStatuses
              => orders'[o].status = orders[o].status]_vars

\* C7: paymentStatus only changes from pending to paid, and only in a step that
\* sets status to delivered; every step that sets status to delivered sets
\* paymentStatus to paid; a paid order has a delivered entry in its history.
C7_PaidOnlyOnDelivered ==
    /\ [][\A o \in DOMAIN orders :
             /\ orders'[o].paymentStatus # orders[o].paymentStatus
                    => /\ orders[o].paymentStatus = "pending"
                       /\ orders'[o].paymentStatus = "paid"
                       /\ orders'[o].status = "delivered"
             /\ (orders'[o] # orders[o] /\ orders'[o].status = "delivered")
                    => orders'[o].paymentStatus = "paid"]_vars
    /\ [](\A o \in DOMAIN orders :
             /\ orders[o].paymentStatus \in {"pending", "paid"}
             /\ orders[o].paymentStatus = "paid"
                    => "delivered" \in StatusesOf(orders[o].statusHistory))

\* an order paid by the customer's confirmation of receipt
C7_Witness ==
    \E o \in DOMAIN orders :
        /\ orders[o].paymentStatus = "paid"
        /\ orders[o].receivedAt # Unset
        /\ orders[o].status = "delivered"

\* C8: statusHistory is append-only: in every step the history before is a
\* prefix of the history after.
C8_HistoryAppendOnly ==
    [][\A o \in DOMAIN orders :
          IsPrefix(orders[o].statusHistory, orders'[o].statusHistory)]_vars

\* an order with three history entries that was cancelled afterwards
C8_Witness ==
    \E o \in DOMAIN orders :
        /\ Len(orders[o].statusHistory) >= 3
        /\ orders[o].cancelledAt > Last(orders[o].statusHistory).timestamp

\* C9: ConfirmReceived by a caller who is not the order's customer answers 403
\* and by the order's customer on an order not in delivering_confirmation
\* answers 400, both leaving the order unchanged; when it answers 200 the
\* order is delivered and paid and a delivered entry was appended.
C9_ConfirmReceived ==
    [][\A p \in DOMAIN procs :
          /\ \A u \in ConfirmReceivedCallers, o \in DOMAIN orders :
                 confirm_received(p, u, o) =>
                     /\ (RoleOf(u) # "customer" \/ orders[o].customerId # u)
                            => /\ procs'[p].pc = "done"
                               /\ procs'[p].code = 403
                               /\ orders' = orders
                     /\ (RoleOf(u) = "customer" /\ orders[o].customerId = u
                            /\ orders[o].status # "delivering_confirmation")
                            => /\ procs'[p].pc = "done"
                               /\ procs'[p].code = 400
                               /\ orders' = orders
          /\ (procs[p].op = "confirm_received" /\ Responds(p) /\ procs'[p].code = 200)
                 => LET before == orders[procs[p].order]
                        after == orders'[procs[p].order]
                    IN /\ after.status = "delivered"
                       /\ after.paymentStatus = "paid"
                       /\ Len(after.statusHistory) = Len(before.statusHistory) + 1
                       /\ IsPrefix(before.statusHistory, after.statusHistory)
                       /\ Last(after.statusHistory).status = "delivered"]_vars

\* the customer's confirmation of receipt answered 200 and the order is delivered
C9_Witness ==
    /\ procs[1].pc = "done" /\ procs[1].op = "confirm_received" /\ procs[1].code = 200
    /\ orders[1].status = "delivered"
    /\ orders[1].receivedAt # Unset

\* C10: a Transition call whose status is not a recognized one answers 400 (403
\* for a caller whose role may not call it) and changes neither an order nor
\* the notifications.
C10_UnknownStatusRejected ==
    [][\A p \in DOMAIN procs, u \in StatusCallers, o \in OrderInputs,
          s \in StatusInputs \ valid_statuses :
          update_order_status(p, u, o, s)
              => /\ procs'[p].pc = "done"
                 /\ procs'[p].code =
                        (IF RoleAllowed(u, {"admin", "restaurant_owner", "delivery"})
                         THEN 400 ELSE 403)
                 /\ UNCHANGED <<orders, notifications>>]_vars

\* a Transition was refused with 400 on an order that had already moved on
C10_Witness ==
    /\ \E p \in DOMAIN procs :
           procs[p].pc = "done" /\ procs[p].op = "status" /\ procs[p].code = 400
    /\ orders[1].status # "pending"

\* the actors the order state machine lets cancel order o: its customer, its
\* courier (by user id or by delivery person record) and the admins
MayCancel(u, o) ==
    \/ RoleOf(u) = "admin"
    \/ orders[o].customerId = u
    \/ orders[o].deliveryPersonId = u
    \/ /\ orders[o].deliveryPersonId \in DeliveryPersonIds
       /\ UserOfCourier(orders[o].deliveryPersonId) = u

\* C11: a Cancel call by a user who is neither the order's customer, nor its
\* courier, nor an admin answers 403 and leaves the order unchanged, whatever
\* cancelled_by value it carries.
C11_CancelAuthorized ==
    [][\A p \in DOMAIN procs, c \in CancelInputs, o \in DOMAIN orders :
          (cancel_order(p, c[1], o, c[2], c[3]) /\ ~MayCancel(c[1], o))
              => /\ procs'[p].pc = "done"
                 /\ procs'[p].code = 403
                 /\ orders' = orders]_vars

\* C12: a Cancel that answers 200 sets status, cancellationReason, cancelledBy
\* and cancelledAt from the request and leaves every other field of the order
\* (statusHistory, deliveryPersonId, paymentStatus, the amounts) and every
\* other order as it was.
C12_CancelFrame ==
    [][\A p \in DOMAIN procs :
          (procs[p].op = "cancel" /\ Responds(p) /\ procs'[p].code = 200)
              => LET o == procs[p].order IN
                 orders' = [orders EXCEPT ![o] =
                               [@ EXCEPT !.status = "cancelled",
                                         !.cancellationReason = procs[p].reason,
                                         !.cancelledBy = procs[p].arg,
                                         !.cancelledAt = clock']]]_vars

\* an order with a courier and two history entries, cancelled by its customer
\* with a reason of their own
C12_Witness ==
    /\ orders[1].status = "cancelled"
    /\ orders[1].deliveryPersonId # None
    /\ Len(orders[1].statusHistory) >= 2
    /\ orders[1].cancellationReason \notin {None, DefaultReason}
    /\ orders[1].cancelledAt = clock

\* C13: ConfirmDelivered by a caller who is not the order's deliveryPersonId
\* (none assigned included) fails, 404 for a courier, and leaves the order
\* unchanged; when it answers 200 the order is in delivering_confirmation with
\* deliveredAt set and one delivering_confirmation entry appended, and nothing
\* else of the order, paymentStatus included, has changed.
C13_ConfirmDelivered ==
    [][\A p \in DOMAIN procs :
          /\ \A u \in ConfirmDeliveryCallers, o \in DOMAIN orders :
                 (confirm_delivery(p, u, o) /\ orders[o].deliveryPersonId # u)
                     => /\ procs'[p].pc = "done"
                        /\ procs'[p].code = (IF RoleOf(u) = "delivery" THEN 404 ELSE 403)
                        /\ orders' = orders
          /\ (procs[p].op = "confirm_delivery" /\ Responds(p) /\ procs'[p].code = 200)
                 => LET o == procs[p].order
                        entry == Last(orders'[o].statusHistory)
                    IN /\ entry.status = "delivering_confirmation"
                       /\ entry.timestamp = clock'
                       /\ orders' = [orders EXCEPT ![o] =
                              [@ EXCEPT !.status = "delivering_confirmation",
                                        !.deliveredAt = clock',
                                        !.statusHistory = Append(@, entry)]]]_vars

\* the order's courier confirmed the delivery while another courier's
\* confirmation of the same order was refused
C13_Witness ==
    /\ orders[1].status = "delivering_confirmation"
    /\ orders[1].deliveredAt # Unset
    /\ orders[1].paymentStatus = "pending"
    /\ \E p, q \in DOMAIN procs :
           /\ procs[p].pc = "done" /\ procs[p].op = "confirm_delivery"
           /\ procs[p].code = 200
           /\ procs[q].pc = "done" /\ procs[q].op = "confirm_delivery"
           /\ procs[q].code = 404

\* C14: AssignToOrder naming a courier who is not both available and online
\* answers 404 (403 for a caller whose role may not call it) and changes
\* neither an order nor a courier; when it answers 200 the order holds that
\* courier, is on_delivery with onDeliveryAt set, and the courier is no
\* longer available.
C14_AssignToOrder ==
    [][\A p \in DOMAIN procs :
          /\ \A u \in AssignCallers, o \in OrderInputs, dp \in CourierInputs :
                 (assign_delivery_person(p, u, o, dp) /\ ~CourierFound(dp))
                     => /\ procs'[p].pc = "done"
                        /\ procs'[p].code =
                               (IF RoleAllowed(u, {"admin", "restaurant_owner"})
                                THEN 404 ELSE 403)
                        /\ UNCHANGED <<orders, couriers>>
          /\ (procs[p].op = "assign" /\ Responds(p) /\ procs'[p].code = 200)
                 => LET o == procs[p].order
                        dp == procs[p].arg
                    IN /\ o \in DOMAIN orders'
                       /\ orders'[o].deliveryPersonId = dp
                       /\ orders'[o].status = "on_delivery"
                       /\ orders'[o].onDeliveryAt # Unset
                       /\ ~couriers'[dp].isAvailable]_vars

\* C16: a courier taken by AssignToOrder is available again once the order is
\* delivered: when the order is delivered and no request is in flight, so
\* that nothing more will happen without a new call, its courier is available.
C16_CourierReleased ==
    \A o \in DOMAIN orders :
        (/\ orders[o].status = "delivered"
         /\ orders[o].deliveryPersonId \in DeliveryPersonIds
         /\ \A p \in DOMAIN procs : Free(p))
            => couriers[orders[o].deliveryPersonId].isAvailable

\* C15: SelfAccept takes effect only on an order of the available-orders
\* queue (unassigned, and pending, confirmed, preparing or ready): a call on
\* any other order is refused, and no write of SelfAccept changes an order
\* that is not in the queue.
C15_AcceptOnlyQueued ==
    [][\A p \in DOMAIN procs :
          /\ \A u \in AcceptCallers, o \in DOMAIN orders :
                 (accept_delivery_order(p, u, o) /\ o \notin AvailableOrders)
                     => /\ procs'[p].pc = "done"
                        /\ procs'[p].code \in {400, 403}
          /\ (accept_write(p) /\ procs[p].order \notin AvailableOrders)
                 => orders' = orders]_vars

\* C20: Create with no items or without a delivery address answers 400 and
\* persists no order, allocates no order number, increments no counter and
\* publishes no notification.
C20_CreateValidation ==
    [][\A p \in DOMAIN procs, u \in Customers, data \in CreateInputs :
          (create_order(p, u, data)
             /\ (Len(data.items) = 0 \/ data.deliveryAddress = None))
              => /\ procs'[p].pc = "done"
                 /\ procs'[p].code = 400
                 /\ procs'[p].count = 0
                 /\ UNCHANGED <<orders, counters, notifications>>]_vars

\* a Create was refused with 400 while an earlier order is persisted, and the
\* counters and notifications are those of the persisted orders alone
C20_Witness ==
    /\ \E p \in DOMAIN procs :
           procs[p].pc = "done" /\ procs[p].op = "create" /\ procs[p].code = 400
    /\ Len(orders) = 1
    /\ counters.restaurant = 1
    /\ Len(notifications) = 1
    /\ \A p \in DOMAIN procs : Free(p)

\* the amounts of an order document
AmountsOf(ord) ==
    <<ord.subtotal, ord.deliveryFee, ord.discount, ord.tax, ord.tip, ord.total>>

\* create_insert of worker p persists an order in this step
Persists(p) == create_insert(p) /\ procs'[p].code = 201

\* C17: the order a Create persists has subtotal the sum of its items'
\* subtotals, tax the cent amount nearest to 16% of the subtotal, and total =
\* subtotal + deliveryFee - discount + tax + tip; subtotal 239.00, fee 35,
\* discount 0, tip 30 give tax 38.24 and total 342.24; and no step changes an
\* amount of an order already persisted.
C17_Financials ==
    [][/\ \A p \in DOMAIN procs :
             Persists(p) =>
                 LET data == procs[p].data
                     new == orders'[Len(orders')]
                     sum == SumSubtotals(data.items)
                 IN /\ new.subtotal = sum
                    /\ new.deliveryFee = Get(data.deliveryFee, 3500)
                    /\ new.discount = Get(data.discount, 0)
                    /\ new.tip = Get(data.tip, 0)
                    /\ 100 * new.tax - 16 * sum \in -50..50
                    /\ new.total = new.subtotal + new.deliveryFee - new.discount
                                       + new.tax + new.tip
                    /\ (sum = 23900 /\ new.deliveryFee = 3500 /\ new.discount = 0
                           /\ new.tip = 3000)
                           => new.tax = 3824 /\ new.total = 34224
       /\ \A o \in DOMAIN orders : AmountsOf(orders'[o]) = AmountsOf(orders[o])]_vars

\* the order of 239.00 with fee 35 and tip 30 was persisted with tax 38.24
\* and total 342.24 and then delivered, beside an order whose tax rounded up
C17_Witness ==
    \E a, b \in DOMAIN orders :
        /\ AmountsOf(orders[a]) = <<23900, 3500, 0, 3824, 3000, 34224>>
        /\ orders[a].status = "delivered"
        /\ orders[a].paymentStatus = "paid"
        /\ orders[b].subtotal = 4
        /\ orders[b].tax = 1

\* C18: every persisted order has subtotal, deliveryFee, discount, tax, tip
\* and total each non-negative.
C18_NonNegativeAmounts ==
    \A o \in DOMAIN orders :
        \A i \in 1..6 : AmountsOf(orders[o])[i] >= 0

\* C19: an order persisted from a request that carries a coupon code has as
\* discount the result of validate_coupon for that code, the order amount,
\* the restaurant and the customer, and is persisted only if that validation
\* succeeds; without a coupon code the discount is the one the caller gave,
\* 0 by default.
C19_CouponDiscount ==
    [][\A p \in DOMAIN procs :
          Persists(p) =>
              LET data == procs[p].data
                  new == orders'[Len(orders')]
                  v == validate_coupon(data.coupon, SumSubtotals(data.items),
                                       data.items[1].restaurantId, procs[p].user, clock)
              IN IF data.coupon # None
                 THEN v.code = 200 /\ new.discount = v.discount
                 ELSE new.discount = Get(data.discount, 0)]_vars

\* the phase timestamps of an order document
PhaseTimestamps(ord) ==
    <<ord.confirmedAt, ord.preparingAt, ord.readyAt, ord.onDeliveryAt,
      ord.acceptedAt, ord.deliveredAt, ord.receivedAt, ord.cancelledAt>>

\* C23: each phase timestamp is set at most once: no step overwrites a phase
\* timestamp that has a value.
C23_TimestampsSetOnce ==
    [][\A o \in DOMAIN orders : \A i \in 1..8 :
          PhaseTimestamps(orders[o])[i] # Unset
              => PhaseTimestamps(orders'[o])[i] = PhaseTimestamps(orders[o])[i]]_vars

\* C28: ConfirmDelivered called by the courier whom AssignToOrder bound to the
\* order (the user of the delivery person record stored in deliveryPersonId)
\* is not refused: it goes on to its write.
C28_AssignedCourierConfirms ==
    [][\A p \in DOMAIN procs, u \in DeliveryUsers, o \in DOMAIN orders :
          (/\ confirm_delivery(p, u, o)
           /\ orders[o].deliveryPersonId \in DeliveryPersonIds
           /\ UserOfCourier(orders[o].deliveryPersonId) = u)
              => procs'[p].pc = "confirm_delivery_write"]_vars

\* C29: in every reachable state an order's status is the status of the last
\* entry of its statusHistory.
C29_StatusMatchesHistory ==
    \A o \in DOMAIN orders : orders[o].status = Last(orders[o].statusHistory).status

\* C30: in every reachable state an order that is on_delivery or in
\* delivering_confirmation has a courier.
C30_DeliveryPhaseHasCourier ==
    \A o \in DOMAIN orders :
        orders[o].status \in {"on_delivery", "delivering_confirmation"}
            => orders[o].deliveryPersonId # None

\* C24: operations on one order are serialized: ConfirmReceived never writes
\* delivered and paid on an order whose status, at the moment of that write,
\* is no longer delivering_confirmation.
C24_ConfirmReceivedSerialized ==
    [][\A p \in DOMAIN procs :
          confirm_received_write(p)
              => orders[procs[p].order].status = "delivering_confirmation"]_vars

\* C27: the handshake is strictly ordered: only a ConfirmDelivered write puts
\* an order into delivering_confirmation, and a ConfirmReceived that answers
\* 200 finds the order still in the delivering_confirmation that the
\* ConfirmDelivered recorded, with no status change in between.
C27_HandshakeOrdered ==
    [][/\ \A o \in DOMAIN orders :
             (orders[o].status # "delivering_confirmation"
                /\ orders'[o].status = "delivering_confirmation")
                 => \E p \in DOMAIN procs :
                        /\ confirm_delivery_write(p)
                        /\ procs[p].order = o
                        /\ procs[p].user \in DeliveryUsers
       /\ \A p \in DOMAIN procs :
             (procs[p].op = "confirm_received" /\ Responds(p) /\ procs'[p].code = 200)
                 => LET before == orders[procs[p].order]
                    IN /\ Last(before.statusHistory).status = "delivering_confirmation"
                       /\ before.status = "delivering_confirmation"]_vars

\* C25: AssignToOrder applies its two writes all or nothing: when the call
\* completes, it has set the courier unavailable if and only if it has set
\* the order's deliveryPersonId, also for an order id that does not exist and
\* when the courier write fails.
C25_AssignAllOrNothing ==
    [][\A p \in DOMAIN procs :
          assign_write_courier(p)
              => (couriers' # couriers <=> Exists(procs[p].order))]_vars

\* C26: a failing notification write, or a failing counter increment of
\* Create, never makes Create, Transition, ConfirmDelivered or ConfirmReceived
\* report failure once the order write is applied.
C26_SideEffectsBestEffort ==
    [][\A p \in DOMAIN procs :
          /\ \A u \in StatusCallers, o \in DOMAIN orders, s \in StatusInputs :
                 (update_order_status(p, u, o, s) /\ orders' # orders)
                     => procs'[p].code = 200
          /\ confirm_delivery_write(p) => procs'[p].code = 200
          /\ confirm_received_write(p) => procs'[p].code = 200
          /\ (create_insert(p) /\ orders' # orders) => procs'[p].code = 201]_vars

\* the rule a coupon makes Validate refuse with ValidationError
RuleRefuses(c, amount, restaurant, u, now) ==
    \/ c.validFrom # <<>> /\ now < c.validFrom[1]
    \/ c.validUntil # <<>> /\ now > c.validUntil[1]
    \/ c.usageLimit # <<>> /\ c.usageCount >= c.usageLimit[1]
    \/ amount < c.minOrderAmount
    \/ c.isForNewUsersOnly /\ \E o \in DOMAIN orders : orders[o].customerId = u
    \/ c.applicableTo = "specific_restaurants" /\ restaurant \notin c.restaurantIds

\* the rule's discount in hundredths of a cent, before rounding
RuleDiscount(c, amount) ==
    LET raw == IF c.discountType = "percentage" THEN amount * c.discountValue
               ELSE 100 * c.discountValue
    IN IF c.maxDiscountAmount # <<>> /\ 100 * c.maxDiscountAmount[1] < raw
       THEN 100 * c.maxDiscountAmount[1]
       ELSE raw

\* C21: Validate agrees with the rule: 404 if no active coupon has the code;
\* 400 outside the validity dates, if usageCount >= usageLimit, if the amount
\* is below minOrderAmount, for a new-users coupon and a customer with an
\* order, or for a restaurant the coupon does not cover; otherwise 200 with
\* the percentage or fixed discount, capped by maxDiscountAmount, to the
\* nearest cent (amount 100 under a minimum of 150 is refused; 200 at 20%
\* capped at 30 gives 30).
C21_ValidateRule ==
    [][\A p \in DOMAIN procs, u \in Customers, code \in CodeInputs \ {""},
          amount \in AmountInputs, r \in RestaurantInputs :
          validate_request(p, u, code, amount, r) =>
              LET answer == procs'[p] IN
              IF ~(code \in DOMAIN coupons /\ coupons[code].isActive)
              THEN answer.code = 404
              ELSE LET c == coupons[code] IN
                   /\ RuleRefuses(c, amount, r, u, clock) => answer.code = 400
                   /\ ~RuleRefuses(c, amount, r, u, clock)
                          => /\ answer.code = 200
                             /\ 100 * answer.discount - RuleDiscount(c, amount) \in -50..50
                   /\ (amount = 10000 /\ c.minOrderAmount = 15000) => answer.code = 400
                   /\ (/\ answer.code = 200 /\ amount = 20000
                       /\ c.discountType = "percentage" /\ c.discountValue = 20
                       /\ c.maxDiscountAmount = <<3000>>)
                          => answer.discount = 3000]_vars

\* a 20% coupon capped at 30.00 was accepted with discount 30.00
C21_Witness ==
    /\ procs[1].pc = "done" /\ procs[1].op = "validate" /\ procs[1].code = 200
    /\ procs[1].discount = 3000
    /\ coupons["X"].discountType = "percentage"
    /\ coupons["X"].maxDiscountAmount = <<3000>>

\* C22: no Validate and no Create changes a coupon document, so usageCount
\* keeps its value, and a coupon that Validate accepted is accepted again for
\* the same request right after.
C22_CouponUnchanged ==
    [][/\ coupons' = coupons
       /\ \A p \in DOMAIN procs, u \in Customers, code \in CodeInputs,
             amount \in AmountInputs, r \in RestaurantInputs :
             (validate_request(p, u, code, amount, r) /\ procs'[p].code = 200)
                 => validate_coupon(code, amount, r, u, clock)'.code = 200]_vars

\* a coupon one use short of its usageLimit was accepted, after an order that
\* names it was persisted and another request was served
C22_Witness ==
    /\ procs[1].pc = "done" /\ procs[1].op = "validate" /\ procs[1].code = 200
    /\ coupons["X"].usageLimit = <<2>>
    /\ coupons["X"].usageCount = 1
    /\ \E o \in DOMAIN orders : orders[o].coupon = "X"
    /\ nreq >= 3

====
